---- MODULE Spec2Model ----
(***************************************************************************)
(* Euler's method for dy/dx = k*y (src/app.py): euler_method, the          *)
(* analytical solution, and the control flow of main around them.          *)
(*                                                                         *)
(* Python floats are IEEE 754 binary floating point.  The model keeps the  *)
(* format's shape and scales its width down: a float is an integer number  *)
(* of quanta (one quantum is 2^-F, the spacing of the subnormal numbers),  *)
(* and only integers with at most P significant bits are floats.  Every    *)
(* arithmetic operation is the exact result rounded to the nearest float,  *)
(* ties to even, as IEEE 754 does.  The exponent has no upper limit in the *)
(* model: overflow to infinity is outside its scope.                       *)
(***************************************************************************)
EXTENDS Integers, Sequences, FiniteSets

(* ------------------------------ bounds -------------------------------- *)
\* Fraction bits: one quantum is 2^-F, so the float 1.0 is 2^F quanta.
F == 2
\* Precision: significant bits of a float.
P == 3
\* Ranges (in quanta) the inputs are drawn from.
MaxK == 4
MaxX0 == 1
MaxXT == 10
MaxH == 4
MaxY0 == 4

(* -------------------------- float arithmetic -------------------------- *)
RECURSIVE Pow2(_)
Pow2(n) == IF n <= 0 THEN 1 ELSE 2 * Pow2(n - 1)

One == Pow2(F)

Abs(a) == IF a < 0 THEN -a ELSE a

Sgn(a) == IF a < 0 THEN -1 ELSE IF a > 0 THEN 1 ELSE 0

\* The smallest den * 2^e (e >= 0) for which a / (den * 2^e) fits P bits.
RECURSIVE Scale(_, _)
Scale(a, den) == IF a \div den < Pow2(P) THEN den ELSE Scale(a, 2 * den)

\* The float nearest to the rational num/den (den > 0), ties to even.
Round(num, den) ==
  LET a  == Abs(num)
      d  == Scale(a, den)
      q  == a \div d
      r  == a % d
      up == IF 2 * r > d \/ (2 * r = d /\ q % 2 = 1) THEN 1 ELSE 0
  IN  Sgn(num) * (((q + up) * d) \div den)

IsFloat(m) == Round(m, 1) = m

Floats(lo, hi) == {m \in lo..hi : IsFloat(m)}

FAdd(a, b) == Round(a + b, 1)

FSub(a, b) == Round(a - b, 1)

FMul(a, b) == Round(a * b, One)

\* b # 0; Python raises ZeroDivisionError otherwise (see EulerEnter).
FDiv(a, b) == Round(Sgn(b) * a * One, Abs(b))

\* int(): truncation toward zero of the float's real value.
IntOf(a) == Sgn(a) * (Abs(a) \div One)

(* ------------------------------ state --------------------------------- *)
VARIABLES
  k, x0, y0, x_target, h,   \* the five parameters
  mode,                     \* "main": the script run; "direct": a caller of euler_method
  pc,                       \* position in main / euler_method
  n_steps, i, x, y,         \* euler_method's locals
  steps, x_values, y_values, dy_dx_values, delta_y_values,  \* its five lists
  results_df,               \* the returned DataFrame (its rows), <<>> before
  calls,                    \* number of calls of euler_method
  exc,                      \* exception that left euler_method uncaught
  errors,                   \* number of st.error reports
  shown,                    \* the sections main has rendered
  error_df,                 \* the rows of the error analysis table
  max_abs_error, max_rel_error   \* the two aggregates main displays

params == <<k, x0, y0, x_target, h, mode>>
locals == <<n_steps, i, x, y>>
lists == <<steps, x_values, y_values, dy_dx_values, delta_y_values>>
report == <<error_df, max_abs_error, max_rel_error>>
vars == <<params, pc, locals, lists, results_df, calls, exc, errors, shown, report>>

(* -------------------------- euler_method ------------------------------ *)
\* n_steps = int((x_target - x0) / h), for h # 0.
NSteps(a0, at, ah) == IntOf(FDiv(FSub(at, a0), ah))

\* The initial point: step 0, x0, y0, k * y0 and no change.
InitialRecord(ak, a0, b0) ==
  [step |-> 0, x |-> a0, y |-> b0, dy_dx |-> FMul(ak, b0), delta_y |-> 0]

\* Mutant: the loop stops one iteration early, range(1, n_steps).
InRangeShort(j, n) == j < n

\* for i in range(1, n_steps + 1)
InRange(j, n) == j <= n

\* Mutant: the derivative is stored after y has advanced.
StepRecordDerivativeAfter(j, ax, ay, ak, ah) ==
  LET dy_dx   == FMul(ak, ay)
      delta_y == FMul(ah, dy_dx)
  IN  [step |-> j, x |-> FAdd(ax, ah), y |-> FAdd(ay, delta_y),
       dy_dx |-> FMul(ak, FAdd(ay, delta_y)), delta_y |-> delta_y]

\* Mutant: the change in y leaves k out, delta_y = h * y.
StepRecordWithoutK(j, ax, ay, ak, ah) ==
  LET dy_dx   == FMul(ak, ay)
      delta_y == FMul(ah, ay)
  IN  [step |-> j, x |-> FAdd(ax, ah), y |-> FAdd(ay, delta_y),
       dy_dx |-> dy_dx, delta_y |-> delta_y]

\* Mutant: the change is subtracted, y = y - delta_y.
StepRecordSubtract(j, ax, ay, ak, ah) ==
  LET dy_dx   == FMul(ak, ay)
      delta_y == FMul(ah, dy_dx)
  IN  [step |-> j, x |-> FAdd(ax, ah), y |-> FSub(ay, delta_y),
       dy_dx |-> dy_dx, delta_y |-> delta_y]

\* Mutant: the step size is left out of the update, y = y + dy_dx.
StepRecordUnscaled(j, ax, ay, ak, ah) ==
  LET dy_dx   == FMul(ak, ay)
      delta_y == FMul(ah, dy_dx)
  IN  [step |-> j, x |-> FAdd(ax, ah), y |-> FAdd(ay, dy_dx),
       dy_dx |-> dy_dx, delta_y |-> delta_y]

\* Mutant: x is recomputed as x0 + i * h instead of accumulated.
StepRecordRecomputedX(j, ax, ay, ak, ah) ==
  LET dy_dx   == FMul(ak, ay)
      delta_y == FMul(ah, dy_dx)
  IN  [step |-> j, x |-> FAdd(x0, FMul(Round(j * One, 1), ah)),
       y |-> FAdd(ay, delta_y), dy_dx |-> dy_dx, delta_y |-> delta_y]

\* One iteration from the current (ax, ay): the values the body stores.
StepRecord(j, ax, ay, ak, ah) ==
  LET dy_dx   == FMul(ak, ay)
      delta_y == FMul(ah, dy_dx)
  IN  [step |-> j, x |-> FAdd(ax, ah), y |-> FAdd(ay, delta_y),
       dy_dx |-> dy_dx, delta_y |-> delta_y]

\* The DataFrame built from the five lists: one row per index.
DataFrame(s, xs, ys, ds, es) ==
  [r \in 1..Len(s) |->
     [step |-> s[r], x |-> xs[r], y |-> ys[r], dy_dx |-> ds[r], delta_y |-> es[r]]]

(* ----------------------- analytical_solution -------------------------- *)
\* sum of t^n/n! for n = j..terms, t = a/One, in units of 1/scale (rounded down).
RECURSIVE ExpSeries(_, _, _, _)
ExpSeries(a, term, j, terms) ==
  IF j > terms THEN 0
  ELSE LET next == (term * a) \div (One * j)
       IN  next + ExpSeries(a, next, j + 1, terms)

\* np.exp of the float m, rounded to the nearest float.  e^|t| is summed in
\* fixed point (16 fraction bits, 16 terms); e^t < 2^t rounds to zero once
\* t <= -(F + 1), the underflow of exp.
ExpF(m) ==
  LET scale == Pow2(16)
      big   == scale + ExpSeries(Abs(m), scale, 1, 16)
  IN  IF m = 0 THEN One
      ELSE IF m < 0 /\ Abs(m) >= (F + 1) * One THEN 0
      ELSE IF m > 0 THEN Round(big * One, scale)
      ELSE Round(One * scale, big)

\* y0 * np.exp(k * (x_values - x0)), for one x.
analytical_solution(ak, a0, b0, ax) == FMul(b0, ExpF(FMul(ak, FSub(ax, a0))))

(* --------------------------- error analysis --------------------------- *)
\* A column value: a float, or the NaN / infinity of a division by zero.
Num(v) == [kind |-> "num", v |-> v]
NaN == [kind |-> "nan", v |-> 0]
Inf == [kind |-> "inf", v |-> 0]
Unset == [kind |-> "unset", v |-> 0]

\* The literal 100 as a float.
Hundred == Round(100 * One, 1)

\* np.abs((y - ya) / ya) * 100 on a Series: a zero divisor gives NaN for
\* 0/0 and infinity otherwise, and nothing is raised.
RelativeError(ay, ya) ==
  IF ya = 0
    THEN IF FSub(ay, ya) = 0 THEN NaN ELSE Inf
    ELSE Num(FMul(Abs(FDiv(FSub(ay, ya), ya)), Hundred))

\* Series.max(): NaN entries are skipped; NaN when nothing is left.
SeriesMax(col) ==
  LET left == {r \in 1..Len(col) : col[r].kind # "nan"}
  IN  IF left = {} THEN NaN
      ELSE IF \E r \in left : col[r].kind = "inf" THEN Inf
      ELSE Num(CHOOSE v \in {col[r].v : r \in left} :
                 \A r \in left : col[r].v <= v)

\* The rows of error_df for the returned DataFrame.
ErrorRows(df, ak, a0, b0) ==
  [r \in 1..Len(df) |->
     LET ya == analytical_solution(ak, a0, b0, df[r].x)
     IN  [x |-> df[r].x, euler |-> df[r].y, analytical |-> ya,
          abs_err |-> Num(Abs(FSub(df[r].y, ya))),
          rel_err |-> RelativeError(df[r].y, ya)]]

(* ------------------------------- main --------------------------------- *)
\* Mutant: the first comparison is strict, so x_target = x0 passes.
InvalidInputStrict(a0, at, ah) == at < a0 \/ ah <= 0

\* Input validation: x_target <= x0, then h <= 0.
InvalidInput(a0, at, ah) == at <= a0 \/ ah <= 0

\* The step-size widget: min_value <= h <= max_value = 1.0.  The smallest
\* positive float stands for min_value.
WidgetH(ah) == ah >= 1 /\ ah <= One

Init ==
  /\ k \in Floats(-MaxK, MaxK)
  /\ x0 \in Floats(-MaxX0, MaxX0)
  /\ y0 \in Floats(-1, MaxY0)
  /\ x_target \in Floats(-MaxXT, MaxXT)
  /\ h \in Floats(-1, MaxH)
  /\ mode \in {"main", "direct"}
  /\ mode = "main" => WidgetH(h)
  /\ pc = IF mode = "main" THEN "main" ELSE "call"
  /\ n_steps = 0 /\ i = 0 /\ x = 0 /\ y = 0
  /\ steps = <<>> /\ x_values = <<>> /\ y_values = <<>>
  /\ dy_dx_values = <<>> /\ delta_y_values = <<>>
  /\ results_df = <<>>
  /\ calls = 0
  /\ exc = "none"
  /\ errors = 0
  /\ shown = {}
  /\ error_df = <<>>
  /\ max_abs_error = Unset
  /\ max_rel_error = Unset

\* main, lines 134-141: report and return, or go on to the button.
MainValidate ==
  /\ pc = "main"
  /\ IF InvalidInput(x0, x_target, h)
       THEN errors' = errors + 1 /\ pc' = "done"
       ELSE errors' = errors /\ pc' = "button"
  /\ UNCHANGED <<params, locals, lists, results_df, calls, exc, shown, report>>

\* main, line 144: the body runs only in a run where the button was pressed.
MainButton ==
  /\ pc = "button"
  /\ \E pressed \in BOOLEAN : pc' = IF pressed THEN "call" ELSE "about"
  /\ UNCHANGED <<params, locals, lists, results_df, calls, exc, errors, shown, report>>

\* euler_method, lines 21-39.  A zero h raises ZeroDivisionError at line 21:
\* main's try/except reports it, a direct caller receives it.
EulerEnter ==
  /\ pc = "call"
  /\ calls' = calls + 1
  /\ IF h = 0
       THEN /\ IF mode = "main"
                 THEN errors' = errors + 1 /\ pc' = "about" /\ exc' = exc
                 ELSE exc' = "ZeroDivisionError" /\ pc' = "raised" /\ errors' = errors
            /\ UNCHANGED <<locals, lists>>
       ELSE LET r == InitialRecord(k, x0, y0) IN
            /\ n_steps' = NSteps(x0, x_target, h)
            /\ x' = x0
            /\ y' = y0
            /\ i' = 1
            /\ steps' = <<r.step>>
            /\ x_values' = <<r.x>>
            /\ y_values' = <<r.y>>
            /\ dy_dx_values' = <<r.dy_dx>>
            /\ delta_y_values' = <<r.delta_y>>
            /\ pc' = "loop"
            /\ UNCHANGED <<exc, errors>>
  /\ UNCHANGED <<params, results_df, shown, report>>

\* euler_method, lines 42-58: one iteration of the loop.
EulerStep ==
  /\ pc = "loop"
  /\ InRange(i, n_steps)
  /\ LET r == StepRecord(i, x, y, k, h) IN
     /\ x' = r.x
     /\ y' = r.y
     /\ steps' = Append(steps, r.step)
     /\ x_values' = Append(x_values, r.x)
     /\ y_values' = Append(y_values, r.y)
     /\ dy_dx_values' = Append(dy_dx_values, r.dy_dx)
     /\ delta_y_values' = Append(delta_y_values, r.delta_y)
  /\ i' = i + 1
  /\ UNCHANGED <<params, pc, n_steps, results_df, calls, exc, errors, shown, report>>

\* euler_method, lines 60-69: the loop is over, the DataFrame is returned.
EulerReturn ==
  /\ pc = "loop"
  /\ ~InRange(i, n_steps)
  /\ results_df' = DataFrame(steps, x_values, y_values, dy_dx_values, delta_y_values)
  /\ pc' = IF mode = "main" THEN "report" ELSE "done"
  /\ UNCHANGED <<params, locals, lists, calls, exc, errors, shown, report>>

\* main, lines 150-229: summary, table, plot, then the error analysis of
\* the returned rows and its two maxima.
MainReport ==
  /\ pc = "report"
  /\ LET rows == ErrorRows(results_df, k, x0, y0) IN
     /\ error_df' = rows
     /\ max_abs_error' = SeriesMax([r \in 1..Len(rows) |-> rows[r].abs_err])
     /\ max_rel_error' = SeriesMax([r \in 1..Len(rows) |-> rows[r].rel_err])
  /\ shown' = shown \cup {"summary", "table", "plot", "errors"}
  /\ pc' = "about"
  /\ UNCHANGED <<params, locals, lists, results_df, calls, exc, errors>>

\* main, lines 234-268: the explanation sections end the run.
MainAbout ==
  /\ pc = "about"
  /\ shown' = shown \cup {"about"}
  /\ pc' = "done"
  /\ UNCHANGED <<params, locals, lists, results_df, calls, exc, errors, report>>

Next ==
  \/ MainValidate
  \/ MainButton
  \/ EulerEnter
  \/ EulerStep
  \/ EulerReturn
  \/ MainReport
  \/ MainAbout

Spec == Init /\ [][Next]_vars

(* ------------------------------ claims -------------------------------- *)
\* The parameters satisfy the contract of the Stepper.
Valid == x_target > x0 /\ h > 0

\* euler_method has returned its DataFrame.
Returned == results_df # <<>>

\* floor of a float's real value.
FloorOf(a) == a \div One

\* C1: for x_target > x0 and h > 0 the returned trace has exactly
\* floor((x_target - x0) / h) + 1 records, numbered 0, 1, ..., n in order,
\* and record 0 is (0, x0, y0, k * y0, 0).
C1_RecordCount ==
  (Valid /\ Returned) =>
    /\ Len(results_df) = FloorOf(FDiv(FSub(x_target, x0), h)) + 1
    /\ \A r \in 1..Len(results_df) : results_df[r].step = r - 1
    /\ results_df[1] =
         [step |-> 0, x |-> x0, y |-> y0, dy_dx |-> FMul(k, y0), delta_y |-> 0]

\* A valid call has returned a trace of several records.
C1_Witness == Valid /\ pc = "done" /\ Len(results_df) >= 4

\* C2 as stated: every record's dy_dx is k times the y of that same record.
C2_DerivativeOfOwnY ==
  \A r \in 1..Len(results_df) : results_df[r].dy_dx = FMul(k, results_df[r].y)

\* C2 amended: record 0 stores k * y0, and every later record stores k times
\* the y of the record before it (the slope the step into it was taken with).
C2_DerivativeOfPreviousY ==
  \A r \in 1..Len(results_df) :
    results_df[r].dy_dx =
      FMul(k, IF r = 1 THEN results_df[1].y ELSE results_df[r - 1].y)

\* A returned trace in which a later record's dy_dx differs from k times
\* its own y.
C2_Witness ==
  /\ Returned
  /\ \E r \in 2..Len(results_df) :
       results_df[r].dy_dx # FMul(k, results_df[r].y)

\* C3 as stated: with h <= 0 or x_target <= x0, a call of euler_method
\* reports InvalidParameters, runs no iteration and produces no trace, not
\* even the initial record, and raises nothing else.
C3_InvalidParametersRejected ==
  (mode = "direct" /\ ~Valid /\ pc # "call") =>
    /\ exc = "InvalidParameters"
    /\ steps = <<>>
    /\ results_df = <<>>

\* C4: every record after the first comes from the record before it by one
\* explicit Euler step in floating point: x accumulates h, delta_y is
\* h * (k * y of the previous record), and y is the previous y plus delta_y.
C4_EulerStep ==
  /\ \A r \in 2..Len(x_values) :
       /\ x_values[r] = FAdd(x_values[r - 1], h)
       /\ delta_y_values[r] = FMul(h, FMul(k, y_values[r - 1]))
       /\ y_values[r] = FAdd(y_values[r - 1], delta_y_values[r])
  /\ \A r \in 2..Len(results_df) :
       /\ results_df[r].x = FAdd(results_df[r - 1].x, h)
       /\ results_df[r].delta_y = FMul(h, FMul(k, results_df[r - 1].y))
       /\ results_df[r].y = FAdd(results_df[r - 1].y, results_df[r].delta_y)

\* A returned trace of a valid call whose accumulated x has left the exact
\* multiples x0 + i * h: the accumulation is what is stored.
C4_Witness ==
  /\ Valid /\ Returned
  /\ Len(results_df) >= 3
  /\ \E r \in 2..Len(results_df) : results_df[r].x # x0 + (r - 1) * h
  /\ \E r \in 2..Len(results_df) : results_df[r].delta_y # 0

\* The x of the last record of the returned trace.
FinalX == results_df[Len(results_df)].x

\* C5 as stated: for valid parameters the final x is the largest x0 + j * h
\* that does not exceed x_target, so x_target - h < final x <= x_target, and
\* when x_target = x0 + n * h for an integer n the final x is x_target.
\* The comparisons are between the real values of the floats.
C5_FinalXIsLargestMultiple ==
  (Valid /\ Returned) =>
    /\ \E j \in 0..Len(results_df) : FinalX = x0 + j * h
    /\ FinalX <= x_target
    /\ x_target - h < FinalX
    /\ (x_target - x0) % h = 0 => FinalX = x_target

\* C6: in main, when x_target <= x0 or h <= 0, the check reports one error
\* and the run ends at once: euler_method is never called and no result,
\* table, plot or error statistic is produced, button or not.
C6_RejectedBeforeComputation ==
  (mode = "main" /\ (x_target <= x0 \/ h <= 0)) =>
    /\ pc \in {"main", "done"}
    /\ errors = (IF pc = "main" THEN 0 ELSE 1)
    /\ calls = 0
    /\ steps = <<>> /\ results_df = <<>>
    /\ shown = {}
    /\ error_df = <<>>
    /\ max_abs_error = Unset /\ max_rel_error = Unset

\* main has ended a run with x_target <= x0 by its one error report.
C6_Witness ==
  mode = "main" /\ x_target <= x0 /\ pc = "done" /\ errors = 1

\* C7: with k = 0, x_target > x0 and h > 0, every record has dy_dx = 0 and
\* delta_y = 0, and y stays y0.
C7_ZeroRateIsConstant ==
  (k = 0 /\ Valid) =>
    /\ \A r \in 1..Len(y_values) :
         dy_dx_values[r] = 0 /\ delta_y_values[r] = 0 /\ y_values[r] = y0
    /\ \A r \in 1..Len(results_df) :
         /\ results_df[r].dy_dx = 0
         /\ results_df[r].delta_y = 0
         /\ results_df[r].y = y0

\* A trace of several records was returned for k = 0 and a nonzero y0.
C7_Witness ==
  k = 0 /\ Valid /\ y0 # 0 /\ Len(results_df) >= 4

\* The records of the error report whose analytical value is not zero.
NonDegenerate == {r \in 1..Len(error_df) : error_df[r].analytical # 0}

\* C8 as stated: where the analytical value is exactly zero the relative
\* error is not-a-number, those records are left out of the maximum relative
\* error, and the maximum is not-a-number when every record is degenerate.
C8_DegenerateRecordsAreNaN ==
  (error_df # <<>>) =>
    /\ \A r \in 1..Len(error_df) :
         error_df[r].analytical = 0 => error_df[r].rel_err = NaN
    /\ NonDegenerate = {} => max_rel_error = NaN
    /\ NonDegenerate # {} =>
         /\ max_rel_error.kind = "num"
         /\ \E r \in NonDegenerate : error_df[r].rel_err = max_rel_error
         /\ \A r \in NonDegenerate : error_df[r].rel_err.v <= max_rel_error.v

\* A floating-point product or sum that needed no rounding.
ExactMul(a, b) == FMul(a, b) * One = a * b
ExactAdd(a, b) == FAdd(a, b) = a + b

\* The step taken from the value ay rounds in none of its three operations.
ExactStep(ay) ==
  /\ ExactMul(k, ay)
  /\ ExactMul(h, FMul(k, ay))
  /\ ExactAdd(ay, FMul(h, FMul(k, ay)))

\* No step into the records 2..r of the lists rounded.
ExactUpTo(r) == \A j \in 2..r : ExactStep(y_values[j - 1])

\* y0 > 0, h > 0 and -1 < k * h < 0, the product taken over the reals.
Decaying == y0 > 0 /\ h > 0 /\ k * h < 0 /\ k * h > -(One * One)

\* C9 as stated: for decaying parameters y is strictly decreasing from
\* record to record and strictly positive throughout.
C9_StrictDecay ==
  Decaying =>
    \A r \in 1..Len(y_values) :
      y_values[r] > 0 /\ (r > 1 => y_values[r] < y_values[r - 1])

\* C9 amended: for decaying parameters a step from a positive y never
\* increases it, and a step from a positive y that rounds in none of its
\* operations strictly decreases it and leaves it strictly positive.
C9_DecayUpToRounding ==
  Decaying =>
    \A r \in 2..Len(y_values) :
      y_values[r - 1] > 0 =>
        /\ y_values[r] <= y_values[r - 1]
        /\ ExactStep(y_values[r - 1]) =>
             (0 < y_values[r] /\ y_values[r] < y_values[r - 1])

\* A decaying trace whose first two steps are exact has been returned.
C9_Witness ==
  Decaying /\ Len(results_df) >= 3 /\ ExactUpTo(3) /\ results_df[3].y < y0

RECURSIVE GCD(_, _)
GCD(a, b) == IF b = 0 THEN a ELSE GCD(b, a % b)

\* The rational n/d (d > 0) in lowest terms.
Ratio(n, d) == LET g == GCD(Abs(n), d) IN <<n \div g, d \div g>>

\* 1 + k * h over the reals.
Growth == Ratio(One * One + k * h, One * One)

\* y0 * (1 + k * h)^j over the reals, in quanta.
RECURSIVE ClosedForm(_)
ClosedForm(j) ==
  IF j = 0 THEN <<y0, 1>>
  ELSE LET c == ClosedForm(j - 1)
       IN  Ratio(c[1] * Growth[1], c[2] * Growth[2])

\* k * y0 * (1 + k * h)^j over the reals, in quanta.
ClosedDerivative(j) ==
  LET c == ClosedForm(j) IN Ratio(k * c[1], One * c[2])

\* C10 as stated: for valid parameters every record agrees with the closed
\* form: y[i] = y0 * (1 + k*h)^i, and for i > 0 the stored
\* dy_dx[i] = k * y0 * (1 + k*h)^(i-1) and delta_y[i] = h * dy_dx[i].
C10_ClosedForm ==
  Valid =>
    \A r \in 1..Len(y_values) :
      /\ <<y_values[r], 1>> = ClosedForm(r - 1)
      /\ r > 1 =>
           /\ <<dy_dx_values[r], 1>> = ClosedDerivative(r - 2)
           /\ delta_y_values[r] = FMul(h, dy_dx_values[r])

\* C10 amended: for valid parameters, the dy_dx of every record i > 0 is the
\* floating-point product k * y[i-1] and its delta_y is the floating-point
\* product h * dy_dx[i]; and for every record i up to which no step rounded,
\* y[i] = y0 * (1 + k*h)^i and dy_dx[i] = k * y0 * (1 + k*h)^(i-1) exactly.
C10_ClosedFormUpToRounding ==
  Valid =>
    \A r \in 2..Len(y_values) :
      /\ dy_dx_values[r] = FMul(k, y_values[r - 1])
      /\ delta_y_values[r] = FMul(h, dy_dx_values[r])
      /\ ExactUpTo(r) =>
           /\ <<y_values[r], 1>> = ClosedForm(r - 1)
           /\ <<dy_dx_values[r], 1>> = ClosedDerivative(r - 2)

\* A valid call has returned a trace whose first two steps are exact and
\* change y, followed by a step that rounds.
C10_Witness ==
  /\ Valid /\ Len(results_df) >= 4
  /\ ExactUpTo(3) /\ ~ExactUpTo(4)
  /\ results_df[3].y # y0 /\ results_df[3].y # 0

====
